---- MODULE Spec2Model ----
(***************************************************************************)
(* A model of the BlenderUtils helper scripts: the batch launcher          *)
(* (BatchUtilities.py), the material helpers (MaterialUtilities.py), the   *)
(* scene helpers (SceneUtilities.py), the compositor helpers               *)
(* (CompositorUtilities.py) and the data-block purge (DataUtilities.py).   *)
(*                                                                         *)
(* The scripts act on objects owned by the host application (bpy).  The    *)
(* host's objects are the state of the model; every helper is one action   *)
(* that performs all of its statements in order, including the statements  *)
(* that raise.  Strings that the code takes apart or puts together (file   *)
(* names, frame suffixes) are sequences of one-character strings.          *)
(***************************************************************************)
EXTENDS Integers, Sequences, FiniteSets, TLC

VARIABLES
    \* ---- BatchUtilities ----
    procs,        \* the subprocesses launched so far: <<[argv, state]>>
    batchPc,      \* where the caller of runBatchProcess is
    batchCall,    \* the arguments of the latest call of runBatchProcess
    batchCalls,   \* how many calls of runBatchProcess were made
    \* ---- MaterialUtilities ----
    mtTree,       \* the material's node tree and bpy.data.images:
                  \* [nodes, links, image, loaded]
    mtCall,       \* the latest call of a MaterialUtilities method
    mtResult,     \* what that call returned or raised
    mtCalls,      \* how many calls were made
    \* ---- the host's scene, data blocks and compositor; the file system ----
    bpy,          \* the host's state (see EmptyHost for its fields)
    fs,           \* the files on disk
    call,         \* the latest call of a scene/compositor/data helper
    result,       \* what that call returned or raised
    trace,        \* what that call did on its way (see NoTrace)
    calls         \* how many such calls were made

batchVars == <<procs, batchPc, batchCall, batchCalls>>
matVars == <<mtTree, mtCall, mtResult, mtCalls>>
hostVars == <<bpy, fs, call, result, trace, calls>>

vars == <<procs, batchPc, batchCall, batchCalls,
          mtTree, mtCall, mtResult, mtCalls,
          bpy, fs, call, result, trace, calls>>

(***************************************************************************)
(* Bounds of the model.                                                    *)
(***************************************************************************)
MaxArgs == 2
MaxBatchCalls == 2
MaxTexNodes == 2
MaxMaterialCalls == 2
MaxObjects == 3
MaxCompCalls == 3
MaxDataBlocks == 2

(***************************************************************************)
(* BatchUtilities.runBatchProcess                                          *)
(***************************************************************************)
BlENDER_EXE == "C:\\Program Files\\Blender Foundation\\Blender 3.3\\blender.exe"

PythonFiles == {"job.py", "render.py"}
ArgStrings == {"-rw", "--"}

RECURSIVE SeqsUpTo(_, _)
SeqsUpTo(S, n) ==
    IF n = 0 THEN {<<>>}
    ELSE LET shorter == SeqsUpTo(S, n - 1)
         IN shorter \cup {Append(s, x) : s \in shorter, x \in S}

ArgLists == SeqsUpTo(ArgStrings, MaxArgs)

\* A plausible slip: the separator is left out of the argument vector.
BatchArgvNoSeparator(python_file, args) ==
    <<BlENDER_EXE, "--background", "--python", python_file>> \o args

\* args = [BlENDER_EXE, "--background", "--python", python_file, "--"] + args
BatchArgv(python_file, args) ==
    <<BlENDER_EXE, "--background", "--python", python_file, "--">> \o args

\* A plausible slip: subprocess.Popen instead of subprocess.run, which
\* hands control back without waiting for the child.
SubprocessRunMayReturnEarly(proc) == TRUE

\* subprocess.run waits for the child: it returns once the child has exited.
SubprocessRunMayReturn(proc) == proc.state = "exited"

BatchIdle ==
    /\ procs = <<>>
    /\ batchPc = "idle"
    /\ batchCall = [python_file |-> "", args |-> <<>>]
    /\ batchCalls = 0

(***************************************************************************)
(* The host's state.  Objects are 1..MaxObjects and 0 stands for None; an  *)
(* object's name identifies it (names are unique in bpy.data.objects).     *)
(*   objAlive          bpy.data.objects                                    *)
(*   objType, objParent, objData   obj.type, obj.parent, obj.data (a mesh) *)
(*   collections       the names in bpy.data.collections                   *)
(*   coll              collection name -> collection.objects               *)
(*   sceneChildren     bpy.context.scene.collection.children               *)
(*   activeCollection  view_layer.active_layer_collection.collection       *)
(*   camera            bpy.context.scene.camera                            *)
(*   cameras           the number of blocks in bpy.data.cameras            *)
(*   selected, active  the selection and view_layer.objects.active         *)
(*   useNodes, nodes, links   scene.use_nodes and scene.node_tree          *)
(*   frame             scene.frame_current                                 *)
(*   meshes, materials, images   bpy.data.meshes, .materials, .images      *)
(*   meshMats, matImgs   the materials a mesh uses, the images a material  *)
(*                       uses                                              *)
(***************************************************************************)
Objs == 1..MaxObjects
DataIds == 1..MaxDataBlocks
CollNames == {"Collection", "Cams"}
ObjTypes == {"MESH", "EMPTY", "CAMERA"}

EmptyHost ==
    [objAlive |-> {},
     objType |-> [o \in Objs |-> "-"],
     objParent |-> [o \in Objs |-> 0],
     objData |-> [o \in Objs |-> 0],
     collections |-> {"Collection"},
     coll |-> [c \in CollNames |-> {}],
     sceneChildren |-> {"Collection"},
     activeCollection |-> "Collection",
     camera |-> 0,
     cameras |-> 0,
     selected |-> {},
     active |-> 0,
     useNodes |-> FALSE,
     nodes |-> <<>>,
     links |-> {},
     frame |-> 1,
     meshes |-> {},
     meshMats |-> [m \in DataIds |-> {}],
     materials |-> {},
     matImgs |-> [m \in DataIds |-> {}],
     images |-> {}]

NoCall == [op |-> "none"]
NoResult == [kind |-> "init", obj |-> 0]
NoTrace ==
    [joined |-> FALSE, merged |-> {}, removeCalled |-> FALSE,
     referenceError |-> FALSE]

HostIdle ==
    /\ bpy = EmptyHost
    /\ fs = {}
    /\ call = NoCall
    /\ result = NoResult
    /\ trace = NoTrace
    /\ calls = 0

\* bpy.data.objects.remove(o) on live objects: they leave every collection,
\* their children lose their parent, and references to them are cleared.
RemoveObjects(w, gone) ==
    [w EXCEPT !.objAlive = @ \ gone,
              !.objType = [o \in Objs |-> IF o \in gone THEN "-" ELSE @[o]],
              !.objData = [o \in Objs |-> IF o \in gone THEN 0 ELSE @[o]],
              !.objParent = [o \in Objs |->
                                IF o \in gone \/ @[o] \in gone THEN 0 ELSE @[o]],
              !.coll = [c \in CollNames |-> @[c] \ gone],
              !.camera = IF @ \in gone THEN 0 ELSE @,
              !.selected = @ \ gone,
              !.active = IF @ \in gone THEN 0 ELSE @]

FreeObjs(w) == Objs \ w.objAlive

(***************************************************************************)
(* SceneUtilities.createCamera                                             *)
(***************************************************************************)
\* `collection` is "" for None.  The result is [bpy, result].
TargetCollection(w, collection) ==
    IF collection # "" THEN collection ELSE w.activeCollection

HasCamera(w, c) == \E o \in w.coll[c] : w.objType[o] = "CAMERA"

\* A plausible slip: the existence check is skipped, as if
\* create_if_camera_exists were always true.
createCameraUnchecked(w, collection, create_if_camera_exists, set_as_active) ==
    LET camCollection == TargetCollection(w, collection)
        new == CHOOSE o \in FreeObjs(w) : \A q \in FreeObjs(w) : o <= q
    IN [bpy |-> [w EXCEPT !.cameras = @ + 1,
                          !.objAlive = @ \cup {new},
                          !.objType[new] = "CAMERA",
                          !.coll[camCollection] = @ \cup {new},
                          !.camera = IF set_as_active THEN new ELSE @],
        result |-> [kind |-> "object", obj |-> new]]

createCamera(w, collection, create_if_camera_exists, set_as_active) ==
    LET camCollection == TargetCollection(w, collection)
        \* a named collection that does not exist is created and linked
        \* to the scene
        w1 == IF collection # "" /\ collection \notin w.collections
              THEN [w EXCEPT !.collections = @ \cup {collection},
                             !.sceneChildren = @ \cup {collection}]
              ELSE w
    IN  IF ~create_if_camera_exists /\ HasCamera(w1, camCollection)
        THEN [bpy |-> w1, result |-> [kind |-> "None", obj |-> 0]]
        ELSE LET new == CHOOSE o \in FreeObjs(w1) :
                            \A q \in FreeObjs(w1) : o <= q
             IN [bpy |-> [w1 EXCEPT
                            \* bpy.data.cameras.new, bpy.data.objects.new
                            !.cameras = @ + 1,
                            !.objAlive = @ \cup {new},
                            !.objType[new] = "CAMERA",
                            \* camCollection.objects.link(camera)
                            !.coll[camCollection] = @ \cup {new},
                            !.camera = IF set_as_active THEN new ELSE @],
                 result |-> [kind |-> "object", obj |-> new]]

(***************************************************************************)
(* SceneUtilities.selectChildren and joinObjects                           *)
(***************************************************************************)
Children(w, p) == {o \in w.objAlive : w.objParent[o] = p}

\* The objects selectChildren(parent, recursive=True) selects: the
\* children, and through the recursive call theirs.
RECURSIVE selectChildren(_, _)
selectChildren(w, parent) ==
    LET cs == Children(w, parent)
    IN cs \cup UNION {selectChildren(w, c) : c \in cs}

\* bpy.ops.object.join(): the selected meshes are merged into the active
\* object and removed.  The operator's poll fails (RuntimeError) when the
\* active object is missing or cannot be joined into; the operator is
\* cancelled with a warning when the active object is not selected.
objectJoin(w) ==
    IF w.active = 0 \/ w.objType[w.active] # "MESH"
    THEN [bpy |-> w, raised |-> TRUE, merged |-> {}]
    ELSE IF w.active \notin w.selected
    THEN [bpy |-> w, raised |-> FALSE, merged |-> {}]
    ELSE LET merged == {o \in w.selected :
                           w.objType[o] = "MESH" /\ o # w.active}
         IN [bpy |-> RemoveObjects(w, merged), raised |-> FALSE,
             merged |-> merged]

\* The meshes the loop over sceneMeshes can stop at: the active parent
\* itself or a mesh parented to it.
JoinCandidates(w, active_parent) ==
    {m \in w.objAlive :
        /\ w.objType[m] = "MESH"
        /\ \/ m = active_parent
           \/ (w.objParent[m] # 0 /\ w.objParent[m] = active_parent)}

\* A plausible slip: the cleanup does not catch the ReferenceError.
joinCleanupUncaught(w, secondary_parent, cleanup_empties) ==
    IF ~cleanup_empties
    THEN [bpy |-> w, raised |-> FALSE, removeCalled |-> FALSE,
          referenceError |-> FALSE]
    ELSE IF secondary_parent \notin w.objAlive
    THEN [bpy |-> w, raised |-> TRUE, removeCalled |-> TRUE,
          referenceError |-> TRUE]
    ELSE [bpy |-> RemoveObjects(w, {secondary_parent}), raised |-> FALSE,
          removeCalled |-> TRUE, referenceError |-> FALSE]

\* The last statements of joinObjects: with cleanup_empties the secondary
\* parent is removed, and the ReferenceError of a parent that the merge
\* already destroyed is caught.
joinCleanup(w, secondary_parent, cleanup_empties) ==
    IF ~cleanup_empties
    THEN [bpy |-> w, raised |-> FALSE, removeCalled |-> FALSE,
          referenceError |-> FALSE]
    ELSE IF secondary_parent \notin w.objAlive
    THEN [bpy |-> w, raised |-> FALSE, removeCalled |-> TRUE,
          referenceError |-> TRUE]
    ELSE [bpy |-> RemoveObjects(w, {secondary_parent}), raised |-> FALSE,
          removeCalled |-> TRUE, referenceError |-> FALSE]

\* joinObjects(active_parent, secondary_parent, cleanup_empties).  `first`
\* is the mesh the loop over the scene's meshes stops at (0 when no mesh
\* matches): the host decides the order of scene.objects.
joinObjects(w, active_parent, secondary_parent, cleanup_empties, first) ==
    LET \* select_all(DESELECT), then both hierarchies with their parents
        sel == ({active_parent} \cup selectChildren(w, active_parent))
                  \cup ({secondary_parent}
                            \cup selectChildren(w, secondary_parent))
        w1 == [w EXCEPT !.selected = sel,
                        !.active = IF first # 0 THEN first ELSE @]
        j == objectJoin(w1)
    IN  IF j.raised
        THEN [bpy |-> w1, result |-> [kind |-> "error", obj |-> 0],
              trace |-> NoTrace]
        ELSE LET w2 == [j.bpy EXCEPT !.selected = {}]
                 c == joinCleanup(w2, secondary_parent, cleanup_empties)
             IN [bpy |-> c.bpy,
                 result |-> [kind |-> IF c.raised THEN "error" ELSE "None",
                             obj |-> 0],
                 trace |-> [joined |-> TRUE, merged |-> j.merged,
                            removeCalled |-> c.removeCalled,
                            referenceError |-> c.referenceError]]

\* ---- the helpers as steps of a script ----
\* Every scene within the bounds is an initial state of SceneSpec, so a
\* script of SceneSpec is one call of a helper on the scene it finds.
CreateCamera(collection, create_if_camera_exists, set_as_active) ==
    /\ FreeObjs(bpy) # {}
    /\ LET out == createCamera(bpy, collection, create_if_camera_exists,
                               set_as_active)
       IN /\ bpy' = out.bpy
          /\ result' = out.result
    /\ call' = [op |-> "createCamera", collection |-> collection,
                create_if_camera_exists |-> create_if_camera_exists,
                set_as_active |-> set_as_active]
    /\ trace' = NoTrace
    /\ calls' = calls + 1
    /\ UNCHANGED <<fs, batchVars, matVars>>

JoinObjects(active_parent, secondary_parent, cleanup_empties, first) ==
    /\ calls = 0
    /\ active_parent \in bpy.objAlive
    /\ secondary_parent \in bpy.objAlive
    /\ IF JoinCandidates(bpy, active_parent) = {}
       THEN first = 0
       ELSE first \in JoinCandidates(bpy, active_parent)
    /\ LET out == joinObjects(bpy, active_parent, secondary_parent,
                              cleanup_empties, first)
       IN /\ bpy' = out.bpy
          /\ result' = out.result
          /\ trace' = out.trace
    /\ call' = [op |-> "joinObjects", active_parent |-> active_parent,
                secondary_parent |-> secondary_parent,
                cleanup_empties |-> cleanup_empties]
    /\ calls' = calls + 1
    /\ UNCHANGED <<fs, batchVars, matVars>>

\* What one object can be when a script starts: dead, a mesh or an empty
\* in "Collection" with or without a parent, or a camera in either
\* collection.
ObjOptions ==
    {[type |-> "-", parent |-> 0, coll |-> "Collection"]}
    \cup {[type |-> t, parent |-> p, coll |-> "Collection"] :
              t \in {"MESH", "EMPTY"}, p \in 0..MaxObjects}
    \cup {[type |-> "CAMERA", parent |-> 0, coll |-> c] : c \in CollNames}

\* An assignment is a scene when parents are live meshes or empties that
\* were made before their children.
WellFormed(f) ==
    \A o \in Objs :
        f[o].parent # 0 =>
            /\ f[o].parent < o
            /\ f[f[o].parent].type \in {"MESH", "EMPTY"}

HostOf(f, camera, active, collections) ==
    [EmptyHost EXCEPT
        !.objAlive = {o \in Objs : f[o].type # "-"},
        !.objType = [o \in Objs |-> f[o].type],
        !.objParent = [o \in Objs |-> f[o].parent],
        !.collections = collections,
        !.sceneChildren = collections,
        !.coll = [c \in CollNames |->
                     {o \in Objs : f[o].type # "-" /\ f[o].coll = c}],
        !.camera = camera,
        !.cameras = Cardinality({o \in Objs : f[o].type = "CAMERA"}),
        !.active = active]

\* bpy is one of the scenes a script can find.
IsSceneWorld ==
    \E f \in [Objs -> ObjOptions] :
        /\ WellFormed(f)
        /\ \E camera \in {0} \cup {o \in Objs : f[o].type = "CAMERA"},
              active \in {0} \cup {o \in Objs : f[o].type # "-"},
              collections \in
                  {CollNames} \cup
                  (IF \E o \in Objs : f[o].type # "-" /\ f[o].coll = "Cams"
                   THEN {} ELSE {{"Collection"}}) :
                bpy = HostOf(f, camera, active, collections)

(***************************************************************************)
(* Strings that the code takes apart or builds: sequences of characters.   *)
(***************************************************************************)
Digits == <<"0", "1", "2", "3", "4", "5", "6", "7", "8", "9">>
Digit(d) == Digits[d + 1]

\* The frame number as the host appends it to a rendered file's name:
\* padded with zeros to four digits.
Pad4(n) ==
    <<Digit((n \div 1000) % 10), Digit((n \div 100) % 10),
      Digit((n \div 10) % 10), Digit(n % 10)>>

\* The largest index of character c in string p, 0 when there is none.
LastIndexOf(p, c) ==
    LET at == {i \in 1..Len(p) : p[i] = c}
    IN IF at = {} THEN 0 ELSE CHOOSE i \in at : \A j \in at : j <= i

\* FilePath(path): the directory, the file's name and its extension.
FilePath(path) ==
    LET slash == LastIndexOf(path, "/")
        file == SubSeq(path, slash + 1, Len(path))
        dot == LastIndexOf(file, ".")
    IN [dir |-> SubSeq(path, 1, slash - 1),
        fileName |-> IF dot = 0 THEN file ELSE SubSeq(file, 1, dot - 1),
        fileExt |-> IF dot = 0 THEN <<>> ELSE SubSeq(file, dot + 1, Len(file))]

\* FilePath(path, has_name=False): a directory only.
FilePathOfDir(path) == [dir |-> path, fileName |-> <<>>, fileExt |-> <<>>]

\* file_path.getFullPath(path_only=True) and file_path.getFullPath()
PathOnly(fp) == fp.dir
FullPath(fp) == fp.dir \o <<"/">> \o fp.fileName \o <<".">> \o fp.fileExt

\* The extension the host gives a file of a format.
FormatExt(format) ==
    IF format = "TARGA" THEN <<"t", "g", "a">> ELSE <<"p", "n", "g">>

\* The file a File Output node writes for one slot at a frame.
RenderedFile(base_path, slot_path, frame, format) ==
    base_path \o <<"/">> \o slot_path \o Pad4(frame) \o <<".">>
        \o FormatExt(format)

(***************************************************************************)
(* CompositorUtilities                                                     *)
(*                                                                         *)
(* A compositor node is [id, type, base_path, slots, format, color_mode,   *)
(* image]; a link is [from, output, to, input].                            *)
(***************************************************************************)
NodeIds(w) == {w.nodes[i].id : i \in 1..Len(w.nodes)}

NewNodeId(w) == CHOOSE n \in 1..(Len(w.nodes) + 1) : n \notin NodeIds(w)

\* node_tree.nodes.new(type): the host's defaults for a new node.
NewNode(w, type) ==
    [id |-> NewNodeId(w), type |-> type,
     base_path |-> <<"/", "t", "m", "p">>,
     slots |-> IF type = "CompositorNodeOutputFile" THEN <<<<"I">>>> ELSE <<>>,
     format |-> "PNG", color_mode |-> "RGB", image |-> <<>>]

\* initCompositor(): switches nodes on and adds an output node, which is
\* the last node of the tree afterwards.
initCompositor(w) ==
    [w EXCEPT !.useNodes = TRUE,
              !.nodes = Append(@, NewNode(w, "CompositorNodeOutputFile"))]

\* The host's iterator over a collection kept as a linked list holds the
\* element after the one it has handed out: `held` is the element that
\* the next round of the loop gets (0 at the end).  Each round the
\* iterator first moves on, then the loop's body removes the element it
\* got.  The result is the sequence of elements the body removed.
Successor(list, x) ==
    LET i == CHOOSE k \in 1..Len(list) : list[k] = x
    IN IF i = Len(list) THEN 0 ELSE list[i + 1]

Without(list, x) == SelectSeq(list, LAMBDA y : y # x)

RECURSIVE IterateRemoving(_, _, _)
IterateRemoving(list, held, removed) ==
    IF held = 0 THEN removed
    ELSE IterateRemoving(Without(list, held), Successor(list, held),
                         Append(removed, held))

\* What a loop would remove if the iterator kept a position in the
\* collection instead, as the iterator of a Python list does.
RECURSIVE IterateRemovingByIndex(_, _, _)
IterateRemovingByIndex(list, i, removed) ==
    IF i > Len(list) THEN removed
    ELSE IterateRemovingByIndex(Without(list, list[i]), i + 1,
                                Append(removed, list[i]))

\* A plausible slip of the loop: it behaves like a loop over a list.
RemovedByLoopOverList(list) == IterateRemovingByIndex(list, 1, <<>>)

\* for x in collection: collection.remove(x) -- the elements removed.
RemovedByLoop(list) ==
    IterateRemoving(list, IF list = <<>> THEN 0 ELSE list[1], <<>>)

Range(q) == {q[i] : i \in 1..Len(q)}

\* for node in node_tree.nodes: node_tree.nodes.remove(node)
\* A removed node takes its links with it.
cleanNodeTree(w) ==
    LET ids == [i \in 1..Len(w.nodes) |-> w.nodes[i].id]
        gone == Range(RemovedByLoop(ids))
    IN [w EXCEPT !.nodes = SelectSeq(@, LAMBDA n : n.id \notin gone),
                 !.links = {l \in @ : l.from \notin gone /\ l.to \notin gone}]

\* bpy.ops.render.render(write_still=True): every File Output node writes
\* one file per slot whose input is linked.  (The scene's own render
\* result is not part of the model.)
RenderWrites(w) ==
    {RenderedFile(w.nodes[i].base_path, w.nodes[i].slots[k], w.frame,
                  w.nodes[i].format) :
        <<i, k>> \in {p \in (1..Len(w.nodes)) \X (1..1) :
                        /\ w.nodes[p[1]].type = "CompositorNodeOutputFile"
                        /\ p[2] <= Len(w.nodes[p[1]].slots)
                        /\ \E l \in w.links :
                              l.to = w.nodes[p[1]].id /\ l.input = p[2] - 1}}

\* renderComposition(node_tree, do_cleanup, frame) on the scene's tree.
\* The result is [bpy, fs, render], render being what the render
\* operator was invoked with.
renderComposition(w, files, do_cleanup, frame) ==
    LET \* Ensure a camera exists prior to rendering
        w1 == IF w.camera = 0
              THEN createCamera(w, "", FALSE, TRUE).bpy
              ELSE w
        w2 == [w1 EXCEPT !.frame = frame]
        written == RenderWrites(w2)
        w3 == IF do_cleanup THEN cleanNodeTree(w2) ELSE w2
    IN [bpy |-> w3, fs |-> files \cup written,
        render |-> [camera |-> w2.camera, frame |-> frame,
                    written |-> written, nodes |-> Len(w2.nodes)]]

\* removeBlenderFrameSuffix(file_path, frame): the files afterwards and
\* whether os.rename raised FileNotFoundError.
removeBlenderFrameSuffix(files, file_path, frame) ==
    LET \* if file_path.exists(): file_path.removeFile()
        files1 == files \ {FullPath(file_path)}
        tmpOutput == PathOnly(file_path) \o <<"/">> \o file_path.fileName
                        \o <<"0", "0", "0", "0">> \o <<".">>
                        \o file_path.fileExt
    IN IF tmpOutput \notin files1
       THEN [fs |-> files1, raised |-> TRUE]
       ELSE [fs |-> (files1 \ {tmpOutput}) \cup {FullPath(file_path)},
             raised |-> FALSE]

\* A plausible slip: the suffix wins over the full destination path.
extractDestinationSuffixFirst(srcTex, dst_img, dst_suffix) ==
    IF dst_suffix # <<>>
    THEN [FilePathOfDir(PathOnly(srcTex)) EXCEPT
             !.fileName = srcTex.fileName \o <<"_">> \o dst_suffix,
             !.fileExt = srcTex.fileExt]
    ELSE IF dst_img # <<>> THEN FilePath(dst_img)
    ELSE FilePath(FullPath(srcTex))

\* The destination of extractAlphaToGreyscale; <<>> stands for None (an
\* empty string is as false as None).
extractDestination(srcTex, dst_img, dst_suffix) ==
    IF dst_img # <<>> THEN FilePath(dst_img)
    ELSE IF dst_suffix # <<>>
    THEN [FilePathOfDir(PathOnly(srcTex)) EXCEPT
             !.fileName = srcTex.fileName \o <<"_">> \o dst_suffix,
             !.fileExt = srcTex.fileExt]
    ELSE FilePath(FullPath(srcTex))

NoFilePath == [dir |-> <<>>, fileName |-> <<>>, fileExt |-> <<>>]
NoRender == [camera |-> 0, frame |-> 0, written |-> {}, nodes |-> 0]
NoCompTrace ==
    [rendered |-> FALSE, render |-> NoRender, configured |-> FALSE,
     dst |-> NoFilePath, base_path |-> <<>>, slots |-> <<>>,
     suffixCalled |-> FALSE, suffixTarget |-> NoFilePath]

\* extractAlphaToGreyscale(src_img, dst_img, dst_suffix, format,
\* do_cleanup): the result is [bpy, fs, result, trace].
extractAlphaToGreyscale(w, files, src_img, dst_img, dst_suffix, format, do_cleanup) ==
    LET w1 == initCompositor(w)
        outputNode == Len(w1.nodes)
        w2 == [w1 EXCEPT !.nodes = Append(@, NewNode(w1, "CompositorNodeImage"))]
        inputNode == Len(w2.nodes)
        w3 == [w2 EXCEPT !.links = @ \cup
                  {[from |-> w2.nodes[inputNode].id, output |-> 1,
                    to |-> w2.nodes[outputNode].id, input |-> 0]}]
        srcTex == FilePath(src_img)
    IN  IF FullPath(srcTex) \notin files
        THEN \* bpy.data.images.load raises on a missing file
             [bpy |-> w3, fs |-> files,
              result |-> [kind |-> "error", value |-> NoFilePath],
              trace |-> NoCompTrace]
        ELSE
        LET dstTex == extractDestination(srcTex, dst_img, dst_suffix)
            w4 == [w3 EXCEPT
                     !.nodes[inputNode].image = FullPath(srcTex),
                     !.nodes[outputNode].base_path = PathOnly(dstTex),
                     !.nodes[outputNode].slots =
                         [k \in 1..Len(@) |-> dstTex.fileName],
                     !.nodes[outputNode].format = format,
                     !.nodes[outputNode].color_mode = "BW"]
            r == renderComposition(w4, files, do_cleanup, 0)
            x == removeBlenderFrameSuffix(r.fs, dstTex, 0)
        IN [bpy |-> r.bpy, fs |-> x.fs,
            result |-> IF x.raised
                       THEN [kind |-> "error", value |-> NoFilePath]
                       ELSE [kind |-> "FilePath", value |-> dstTex],
            trace |-> [rendered |-> TRUE, render |-> r.render,
                       configured |-> TRUE, dst |-> dstTex,
                       base_path |-> w4.nodes[outputNode].base_path,
                       slots |-> w4.nodes[outputNode].slots,
                       suffixCalled |-> TRUE, suffixTarget |-> dstTex]]

\* ---- the compositor helpers as steps of a script ----
SrcA == <<"d", "/", "a", ".", "t", "g", "a">>
DstB == <<"e", "/", "b", ".", "t", "g", "a">>
SrcImages == {SrcA}
DstImages == {<<>>, DstB}
DstSuffixes == {<<>>, <<"R">>}
Formats == {"TARGA", "PNG"}
Frames == {0, 1}

\* The FilePath objects a script passes to removeBlenderFrameSuffix.
FilePaths ==
    {FilePath(SrcA), FilePath(DstB),
     FilePath(<<"d", "/", "a", "_", "R", ".", "t", "g", "a">>)}

InitCompositor ==
    /\ calls < MaxCompCalls
    /\ bpy' = initCompositor(bpy)
    /\ call' = [op |-> "initCompositor"]
    /\ result' = [kind |-> "node", value |-> NoFilePath]
    /\ trace' = NoCompTrace
    /\ calls' = calls + 1
    /\ UNCHANGED <<fs, batchVars, matVars>>

RenderComposition(do_cleanup, frame) ==
    /\ calls < MaxCompCalls
    /\ FreeObjs(bpy) # {}
    /\ LET out == renderComposition(bpy, fs, do_cleanup, frame)
       IN /\ bpy' = out.bpy
          /\ fs' = out.fs
          /\ trace' = [NoCompTrace EXCEPT !.rendered = TRUE,
                                          !.render = out.render]
    /\ call' = [op |-> "renderComposition", do_cleanup |-> do_cleanup,
                frame |-> frame]
    /\ result' = [kind |-> "None", value |-> NoFilePath]
    /\ calls' = calls + 1
    /\ UNCHANGED <<batchVars, matVars>>

RemoveBlenderFrameSuffix(file_path, frame) ==
    /\ calls < MaxCompCalls
    /\ LET out == removeBlenderFrameSuffix(fs, file_path, frame)
       IN /\ fs' = out.fs
          /\ result' = [kind |-> IF out.raised THEN "error" ELSE "None",
                        value |-> NoFilePath]
    /\ call' = [op |-> "removeBlenderFrameSuffix", file_path |-> file_path,
                frame |-> frame]
    /\ trace' = [NoCompTrace EXCEPT !.suffixCalled = TRUE,
                                    !.suffixTarget = file_path]
    /\ calls' = calls + 1
    /\ UNCHANGED <<bpy, batchVars, matVars>>

ExtractAlphaToGreyscale(src_img, dst_img, dst_suffix, format, do_cleanup) ==
    /\ calls < MaxCompCalls
    /\ FreeObjs(bpy) # {}
    /\ LET out == extractAlphaToGreyscale(bpy, fs, src_img, dst_img,
                                          dst_suffix, format, do_cleanup)
       IN /\ bpy' = out.bpy
          /\ fs' = out.fs
          /\ result' = out.result
          /\ trace' = out.trace
    /\ call' = [op |-> "extractAlphaToGreyscale", src_img |-> src_img,
                dst_img |-> dst_img, dst_suffix |-> dst_suffix,
                format |-> format, do_cleanup |-> do_cleanup]
    /\ calls' = calls + 1
    /\ UNCHANGED <<batchVars, matVars>>

(***************************************************************************)
(* DataUtilities.purgeMeshObjectsFromCollection                            *)
(***************************************************************************)
\* block.users: the number of users of a data block.
MeshUsers(w, m) ==
    Cardinality({o \in w.objAlive : w.objType[o] = "MESH" /\ w.objData[o] = m})
MaterialUsers(w, t) == Cardinality({m \in w.meshes : t \in w.meshMats[m]})
ImageUsers(w, i) == Cardinality({t \in w.materials : i \in w.matImgs[t]})

\* The elements of a set of numbers in the host's order.
RECURSIVE Ordered(_)
Ordered(set) ==
    IF set = {} THEN <<>>
    ELSE LET least == CHOOSE x \in set : \A y \in set : x <= y
         IN <<least>> \o Ordered(set \ {least})

\* for obj in objects: ... bpy.data.objects.remove(obj) -- the objects
\* the loop removes.
purgedObjects(w, collection_name) ==
    Range(RemovedByLoop(Ordered(w.coll[collection_name])))

\* A plausible slip: the meshes of the removed objects are removed
\* whether or not something else still uses them.
meshesToRemoveIgnoringUsers(w, meshes, remove_meshes) ==
    IF remove_meshes THEN meshes ELSE {}

\* [m for m in meshes if m.users == 0], under `if remove_meshes`
meshesToRemove(w, meshes, remove_meshes) ==
    IF remove_meshes THEN {m \in meshes : MeshUsers(w, m) = 0} ELSE {}

purgeMeshObjectsFromCollection(w, collection_name, remove_meshes, remove_materials, remove_images) ==
    LET gone == purgedObjects(w, collection_name)
        meshes == {w.objData[o] : o \in {g \in gone : w.objType[g] = "MESH"}}
        w1 == RemoveObjects(w, gone)
        w2 == [w1 EXCEPT !.meshes = @ \ meshesToRemove(w1, meshes, remove_meshes)]
        w3 == IF remove_materials
              THEN [w2 EXCEPT !.materials =
                       {t \in @ : MaterialUsers(w2, t) # 0}]
              ELSE w2
        w4 == IF remove_images
              THEN [w3 EXCEPT !.images = {i \in @ : ImageUsers(w3, i) # 0}]
              ELSE w3
    IN w4

PurgeMeshObjectsFromCollection(collection_name, remove_meshes, remove_materials, remove_images) ==
    /\ calls = 0
    /\ collection_name \in bpy.collections
    /\ bpy' = purgeMeshObjectsFromCollection(bpy, collection_name,
                  remove_meshes, remove_materials, remove_images)
    /\ call' = [op |-> "purgeMeshObjectsFromCollection",
                collection_name |-> collection_name,
                remove_meshes |-> remove_meshes,
                remove_materials |-> remove_materials,
                remove_images |-> remove_images]
    /\ result' = [kind |-> "None", obj |-> 0]
    /\ trace' = NoTrace
    /\ calls' = calls + 1
    /\ UNCHANGED <<fs, batchVars, matVars>>

\* What one object can be in a file to purge: dead, a mesh object with
\* one of the meshes, an empty or a camera; in one of the collections, a
\* mesh object possibly in both.
DataObjOptions ==
    {[type |-> "-", data |-> 0, colls |-> {}]}
    \cup {[type |-> "MESH", data |-> m, colls |-> cs] :
              m \in DataIds, cs \in {{"Collection"}, {"Cams"}, CollNames}}
    \cup {[type |-> t, data |-> 0, colls |-> {c}] :
              t \in {"EMPTY", "CAMERA"}, c \in CollNames}

\* Every mesh m uses material m, every material uses image 1; a mesh that
\* no object uses is an orphan from the start.
DataHostOf(f) ==
    [EmptyHost EXCEPT
        !.objAlive = {o \in Objs : f[o].type # "-"},
        !.objType = [o \in Objs |-> f[o].type],
        !.objData = [o \in Objs |-> f[o].data],
        !.collections = CollNames,
        !.sceneChildren = CollNames,
        !.coll = [c \in CollNames |-> {o \in Objs : c \in f[o].colls}],
        !.cameras = Cardinality({o \in Objs : f[o].type = "CAMERA"}),
        !.meshes = DataIds,
        !.meshMats = [m \in DataIds |-> {m}],
        !.materials = DataIds,
        !.matImgs = [t \in DataIds |-> {1}],
        !.images = {1}]

(***************************************************************************)
(* MaterialUtilities: the node tree of one material.                       *)
(*                                                                         *)
(* A node is [kind, id]; the shader node is the one named                  *)
(* "Principled BSDF".  A link is [from, to, socket]: from's first output   *)
(* into the input `socket` of `to`; an input socket holds at most one      *)
(* link, so linking into it replaces the link it had.                      *)
(***************************************************************************)
BSDF == [kind |-> "BSDF_PRINCIPLED", id |-> 0]
NormalMap == [kind |-> "NORMAL_MAP", id |-> 0]
Tex(i) == [kind |-> "TEX_IMAGE", id |-> i]
NoNode == [kind |-> "none", id |-> 0]

TexIds == 1..MaxTexNodes

\* BlenderMaterialTextureSlots: the names of the shader's inputs.
Slots == {"Base Color", "Normal"}

TexturePaths == {"wood.tga", "missing.tga"}
FilesOnDisk == {"wood.tga"}

Raised(exc) == [kind |-> "error", exc |-> exc, node |-> NoNode]
Returned(kind, node) == [kind |-> kind, exc |-> "", node |-> node]

LinksInto(links, node, socket) ==
    {l \in links : l.to = node /\ l.socket = socket}

\* getTextureFromSlot: what it returns or raises on a tree.
GetTextureFromSlot(t, slot) ==
    \* shaderGraph = material.node_tree.nodes.get("Principled BSDF", None)
    IF BSDF \notin t.nodes
    THEN Raised("AttributeError")      \* None has no attribute 'inputs'
    ELSE LET ls == LinksInto(t.links, BSDF, slot)
         IN IF ls = {} THEN Returned("None", NoNode)
            ELSE LET from == (CHOOSE l \in ls : TRUE).from
                 IN IF slot = "Normal"
                    THEN IF from.kind # "NORMAL_MAP"
                         THEN Raised("KeyError")    \* no input "Color"
                         ELSE LET cs == LinksInto(t.links, from, "Color")
                              IN IF cs = {} THEN Raised("IndexError")
                                 ELSE Returned("node",
                                          (CHOOSE l \in cs : TRUE).from)
                    ELSE Returned("node", from)

\* bpy.data.images.load(path, check_existing=True) raises on a missing file.
CanLoad(path) == path \in FilesOnDisk

FreeTexIds(t) == {i \in TexIds : Tex(i) \notin t.nodes}

\* The tree after node_tree.links.new(node.outputs[0], shader.inputs[slot]).
WithLink(t, node, slot) ==
    [t EXCEPT !.links = (t.links \ LinksInto(t.links, BSDF, slot))
                            \cup {[from |-> node, to |-> BSDF, socket |-> slot]}]

\* createTextureNode: the node is created first, then the image is loaded.
CreateTextureNode(t, path) ==
    LET new == Tex(CHOOSE i \in FreeTexIds(t) : \A j \in FreeTexIds(t) : i <= j)
        made == [t EXCEPT !.nodes = t.nodes \cup {new}]
    IN IF ~CanLoad(path)
       THEN [tree |-> made, result |-> Raised("RuntimeError")]
       ELSE [tree |-> [made EXCEPT !.image[new.id] = path,
                                   !.loaded = made.loaded \cup {path}],
             result |-> Returned("node", new)]

\* A plausible slip: the texture node is created and linked before the
\* shader node is looked up.
SetTextureBySlotCreatesFirst(t, slot, given, node, path) ==
    IF given
    THEN [tree |-> t, result |-> GetTextureFromSlot(t, slot)]
    ELSE LET c == CreateTextureNode(t, path)
         IN IF BSDF \notin t.nodes
            THEN [tree |-> c.tree, result |-> Raised("AttributeError")]
            ELSE [tree |-> WithLink(c.tree, c.result.node, slot),
                  result |-> Returned("True", NoNode)]

\* setTextureBySlot(material, slot, texture_node, texture_path): the tree
\* it leaves and what it returns or raises.  `given` says whether a
\* texture_node was passed.
SetTextureBySlot(t, slot, given, node, path) ==
    LET found == IF given THEN Returned("node", node)
                 ELSE GetTextureFromSlot(t, slot)
    IN  IF found.kind = "error" THEN [tree |-> t, result |-> found]
        ELSE IF ~given /\ found.kind = "node"
        THEN \* an existing link: load the image and assign it
             IF ~CanLoad(path)
             THEN [tree |-> t, result |-> Raised("RuntimeError")]
             ELSE [tree |-> [t EXCEPT !.image[found.node.id] = path,
                                      !.loaded = t.loaded \cup {path}],
                   result |-> Returned("True", NoNode)]
        ELSE IF BSDF \notin t.nodes
        THEN [tree |-> t, result |-> Raised("AttributeError")]
        ELSE IF found.kind = "None"
        THEN LET c == CreateTextureNode(t, path)
             IN IF c.result.kind = "error" THEN c
                ELSE [tree |-> WithLink(c.tree, c.result.node, slot),
                      result |-> Returned("True", NoNode)]
        ELSE [tree |-> WithLink(t, found.node, slot),
              result |-> Returned("True", NoNode)]

NoImages == [i \in TexIds |-> ""]

\* The trees a material can have when the helpers are first called.
InitialTrees ==
    { [nodes |-> {}, links |-> {}, image |-> NoImages, loaded |-> {}],
      [nodes |-> {BSDF}, links |-> {}, image |-> NoImages, loaded |-> {}],
      [nodes |-> {Tex(1)}, links |-> {},
       image |-> [NoImages EXCEPT ![1] = "wood.tga"], loaded |-> {"wood.tga"}],
      [nodes |-> {BSDF, Tex(1)},
       links |-> {[from |-> Tex(1), to |-> BSDF, socket |-> "Base Color"]},
       image |-> [NoImages EXCEPT ![1] = "wood.tga"], loaded |-> {"wood.tga"}],
      [nodes |-> {BSDF, NormalMap, Tex(1)},
       links |-> {[from |-> NormalMap, to |-> BSDF, socket |-> "Normal"],
                  [from |-> Tex(1), to |-> NormalMap, socket |-> "Color"]},
       image |-> NoImages, loaded |-> {}],
      [nodes |-> {BSDF, NormalMap},
       links |-> {[from |-> NormalMap, to |-> BSDF, socket |-> "Normal"]},
       image |-> NoImages, loaded |-> {}],
      [nodes |-> {NormalMap, Tex(1)},
       links |-> {[from |-> Tex(1), to |-> NormalMap, socket |-> "Color"]},
       image |-> NoImages, loaded |-> {}] }

NoMaterialCall ==
    [op |-> "none", slot |-> "", given |-> FALSE, node |-> NoNode, path |-> ""]

MaterialIdle ==
    /\ mtTree = [nodes |-> {}, links |-> {}, image |-> NoImages, loaded |-> {}]
    /\ mtCall = NoMaterialCall
    /\ mtResult = Returned("init", NoNode)
    /\ mtCalls = 0

MaterialGetTextureFromSlot(slot) ==
    /\ mtCalls < MaxMaterialCalls
    /\ mtResult' = GetTextureFromSlot(mtTree, slot)
    /\ mtCall' = [NoMaterialCall EXCEPT !.op = "getTextureFromSlot",
                                        !.slot = slot]
    /\ mtCalls' = mtCalls + 1
    /\ UNCHANGED <<mtTree, batchVars, hostVars>>

MaterialSetTextureBySlot(slot, given, node, path) ==
    /\ mtCalls < MaxMaterialCalls
    /\ given => node \in {n \in mtTree.nodes : n.kind = "TEX_IMAGE"}
    /\ ~given => node = NoNode
    /\ FreeTexIds(mtTree) # {}
    /\ LET out == SetTextureBySlot(mtTree, slot, given, node, path)
       IN /\ mtTree' = out.tree
          /\ mtResult' = out.result
    /\ mtCall' = [op |-> "setTextureBySlot", slot |-> slot, given |-> given,
                  node |-> node, path |-> path]
    /\ mtCalls' = mtCalls + 1
    /\ UNCHANGED <<batchVars, hostVars>>

RunBatchProcessCall(python_file, args) ==
    /\ batchPc \in {"idle", "returned"}
    /\ batchCalls < MaxBatchCalls
    /\ procs' = Append(procs, [argv |-> BatchArgv(python_file, args),
                               state |-> "running"])
    /\ batchPc' = "in_subprocess_run"
    /\ batchCall' = [python_file |-> python_file, args |-> args]
    /\ batchCalls' = batchCalls + 1
    /\ UNCHANGED <<matVars, hostVars>>

\* The external batch run ends (the host application quits).
SubprocessExit ==
    /\ procs # <<>>
    /\ procs[Len(procs)].state = "running"
    /\ procs' = [procs EXCEPT ![Len(procs)].state = "exited"]
    /\ UNCHANGED <<batchPc, batchCall, batchCalls, matVars, hostVars>>

\* subprocess.run returns and with it runBatchProcess.
RunBatchProcessReturn ==
    /\ batchPc = "in_subprocess_run"
    /\ SubprocessRunMayReturn(procs[Len(procs)])
    /\ batchPc' = "returned"
    /\ UNCHANGED <<procs, batchCall, batchCalls, matVars, hostVars>>

(***************************************************************************)
(* Specifications: one per group of helpers.  The groups share no state,   *)
(* so each specification leaves the other groups' variables idle.          *)
(***************************************************************************)
BatchNext ==
    \/ \E f \in PythonFiles, a \in ArgLists : RunBatchProcessCall(f, a)
    \/ SubprocessExit
    \/ RunBatchProcessReturn

BatchInit == BatchIdle /\ MaterialIdle /\ HostIdle

BatchSpec == BatchInit /\ [][BatchNext]_vars

\* subprocess.run returns as soon as the child has exited: the return step
\* is never postponed for ever once it is possible.
BatchFairSpec == BatchSpec /\ WF_vars(RunBatchProcessReturn)

MaterialNext ==
    \/ \E slot \in Slots : MaterialGetTextureFromSlot(slot)
    \/ \E slot \in Slots, given \in BOOLEAN, path \in TexturePaths,
          node \in {Tex(i) : i \in TexIds} \cup {NoNode} :
            MaterialSetTextureBySlot(slot, given, node, path)

MaterialInit ==
    /\ BatchIdle
    /\ HostIdle
    /\ mtTree \in InitialTrees
    /\ mtCall = NoMaterialCall
    /\ mtResult = Returned("init", NoNode)
    /\ mtCalls = 0

MaterialSpec == MaterialInit /\ [][MaterialNext]_vars

SceneInit ==
    /\ BatchIdle
    /\ MaterialIdle
    /\ IsSceneWorld
    /\ fs = {}
    /\ call = NoCall
    /\ result = NoResult
    /\ trace = NoTrace
    /\ calls = 0

SceneNext ==
    \/ \E c \in CollNames \cup {""}, e \in BOOLEAN, a \in BOOLEAN :
          calls = 0 /\ CreateCamera(c, e, a)
    \/ \E p \in Objs, q \in Objs, k \in BOOLEAN, f \in 0..MaxObjects :
          JoinObjects(p, q, k, f)

SceneSpec == SceneInit /\ [][SceneNext]_vars

\* The compositor scripts start in a file with an empty node tree, with
\* or without a camera in the active collection, which the scene may or
\* may not use as its camera; the source image and a file at one of the
\* destinations are on disk.
CompInit ==
    /\ BatchIdle
    /\ MaterialIdle
    /\ \E cam \in BOOLEAN, used \in BOOLEAN :
          /\ used => cam
          /\ bpy = IF cam
                   THEN [EmptyHost EXCEPT
                            !.objAlive = {1}, !.objType[1] = "CAMERA",
                            !.coll["Collection"] = {1}, !.cameras = 1,
                            !.camera = IF used THEN 1 ELSE 0]
                   ELSE EmptyHost
    /\ fs = {SrcA, DstB}
    /\ call = NoCall
    /\ result = NoResult
    /\ trace = NoCompTrace
    /\ calls = 0

CompNext ==
    \/ \E e \in BOOLEAN, a \in BOOLEAN :
          calls < MaxCompCalls /\ CreateCamera("", e, a)
    \/ InitCompositor
    \/ \E k \in BOOLEAN, f \in Frames : RenderComposition(k, f)
    \/ \E p \in FilePaths, f \in Frames : RemoveBlenderFrameSuffix(p, f)
    \/ \E src \in SrcImages, dst \in DstImages, suf \in DstSuffixes,
          fmt \in Formats, k \in BOOLEAN :
            ExtractAlphaToGreyscale(src, dst, suf, fmt, k)

CompSpec == CompInit /\ [][CompNext]_vars

DataInit ==
    /\ BatchIdle
    /\ MaterialIdle
    /\ \E f \in [Objs -> DataObjOptions] : bpy = DataHostOf(f)
    /\ fs = {}
    /\ call = NoCall
    /\ result = NoResult
    /\ trace = NoTrace
    /\ calls = 0

DataNext ==
    \E c \in CollNames, m \in BOOLEAN, t \in BOOLEAN, i \in BOOLEAN :
        PurgeMeshObjectsFromCollection(c, m, t, i)

DataSpec == DataInit /\ [][DataNext]_vars

(***************************************************************************)
(* C1: every call of runBatchProcess launches exactly one subprocess, and  *)
(* its argument vector is the hardcoded executable, "--background",        *)
(* "--python", the script path and "--", followed by the caller's args in  *)
(* their order and unchanged, with nothing else after the separator.       *)
(***************************************************************************)
C1_ArgvForwardsArgsVerbatim ==
    /\ Len(procs) = batchCalls
    /\ batchCalls > 0 =>
          LET argv == procs[Len(procs)].argv
              args == batchCall.args
          IN /\ Len(argv) = 5 + Len(args)
             /\ argv[1] = BlENDER_EXE
             /\ argv[2] = "--background"
             /\ argv[3] = "--python"
             /\ argv[4] = batchCall.python_file
             /\ argv[5] = "--"
             /\ \A i \in 1..Len(args) : argv[5 + i] = args[i]

\* A call whose own arguments contain the separator string has been made.
C1_Witness ==
    /\ batchCalls > 0
    /\ Len(batchCall.args) = 2
    /\ batchCall.args[1] = "--"
    /\ Len(procs[Len(procs)].argv) = 7

(***************************************************************************)
(* C2: runBatchProcess blocks.  While a launched subprocess is running the *)
(* caller is inside subprocess.run (it has not returned and makes no other *)
(* step), and once the subprocess has exited runBatchProcess returns.      *)
(***************************************************************************)
C2_RunBatchProcessBlocks ==
    /\ [](\A i \in 1..Len(procs) :
            procs[i].state = "running" =>
                (i = Len(procs) /\ batchPc = "in_subprocess_run"))
    /\ [](batchPc = "returned" => procs[Len(procs)].state = "exited")
    /\ ((batchPc = "in_subprocess_run" /\ procs[Len(procs)].state = "exited")
            ~> (batchPc = "returned"))

\* runBatchProcess has returned after its subprocess ended.
C2_Witness ==
    /\ batchPc = "returned"
    /\ procs[Len(procs)].state = "exited"
    /\ batchCalls = 2

(***************************************************************************)
(* C3: createCamera with create_if_camera_exists=False on a target         *)
(* collection (the named one, or the active one when none is named) that   *)
(* already holds a CAMERA object returns None and changes nothing in the   *)
(* host: no camera block, no object, no link, the same scene camera.       *)
(***************************************************************************)
C3_ExistingCameraMeansNoChange ==
    [][(/\ calls' # calls
        /\ call'.op = "createCamera"
        /\ ~call'.create_if_camera_exists
        /\ HasCamera(bpy, TargetCollection(bpy, call'.collection)))
         => (result'.kind = "None" /\ bpy' = bpy)]_vars

\* createCamera was refused for a named collection that holds a camera
\* which is not the scene's camera.
C3_Witness ==
    /\ call.op = "createCamera"
    /\ call.collection = "Cams"
    /\ ~call.create_if_camera_exists
    /\ call.set_as_active
    /\ result.kind = "None"
    /\ HasCamera(bpy, "Cams")
    /\ bpy.camera = 0

(***************************************************************************)
(* C4: in joinObjects, once the merge is done: with cleanup_empties, a     *)
(* secondary parent that the merge destroyed makes the removal raise a     *)
(* ReferenceError that is swallowed (joinObjects returns normally), and a  *)
(* secondary parent that still exists is removed from the objects; without *)
(* cleanup_empties no removal is attempted.                                *)
(***************************************************************************)
C4_JoinCleanup ==
    (call.op = "joinObjects" /\ trace.joined) =>
        LET sp == call.secondary_parent
        IN /\ (call.cleanup_empties /\ sp \in trace.merged) =>
                  /\ trace.referenceError
                  /\ result.kind = "None"
           /\ (call.cleanup_empties /\ sp \notin trace.merged) =>
                  /\ trace.removeCalled /\ ~trace.referenceError
                  /\ result.kind = "None"
                  /\ sp \notin bpy.objAlive
           /\ ~call.cleanup_empties =>
                  /\ ~trace.removeCalled
                  /\ result.kind = "None"
                  /\ (sp \in bpy.objAlive) <=> (sp \notin trace.merged)

\* joinObjects returned although the merge had destroyed the secondary
\* parent together with another mesh.
C4_Witness ==
    /\ call.op = "joinObjects"
    /\ call.cleanup_empties
    /\ trace.referenceError
    /\ call.secondary_parent \in trace.merged
    /\ Cardinality(trace.merged) = 2
    /\ result.kind = "None"

(***************************************************************************)
(* C6: whenever renderComposition invokes the render operator, the scene   *)
(* has an active camera (scene.camera is set), whatever the scene's camera *)
(* and the active collection held when renderComposition was called.       *)
(***************************************************************************)
C6_CameraSetAtRender ==
    (call.op \in {"renderComposition", "extractAlphaToGreyscale"}
        /\ trace.rendered) => trace.render.camera # 0

(***************************************************************************)
(* C7: after renderComposition with do_cleanup=True the node tree holds no *)
(* node, whatever its size was; with do_cleanup=False it holds the nodes   *)
(* it held before the call.                                                *)
(***************************************************************************)
C7_CleanupEmptiesNodeTree ==
    [][(calls' # calls /\ call'.op = "renderComposition") =>
          IF call'.do_cleanup
          THEN bpy'.nodes = <<>> /\ bpy'.links = {}
          ELSE bpy'.nodes = bpy.nodes]_vars

\* renderComposition has emptied a tree of three nodes.
C7_Witness ==
    /\ call.op = "renderComposition"
    /\ call.do_cleanup
    /\ trace.render.nodes = 3
    /\ bpy.nodes = <<>>

(***************************************************************************)
(* C8: for every frame number, removeBlenderFrameSuffix(file_path, frame)  *)
(* renames the rendered file named file_path's name plus the frame padded  *)
(* to four digits to file_path: afterwards there is a file at file_path    *)
(* and none with the frame suffix.                                         *)
(***************************************************************************)
C8_SuffixRemovedForEveryFrame ==
    [][(/\ calls' # calls
        /\ call'.op = "removeBlenderFrameSuffix"
        /\ (PathOnly(call'.file_path) \o <<"/">> \o call'.file_path.fileName
              \o Pad4(call'.frame) \o <<".">> \o call'.file_path.fileExt)
                 \in fs)
         => (/\ result'.kind = "None"
             /\ FullPath(call'.file_path) \in fs'
             /\ (PathOnly(call'.file_path) \o <<"/">>
                   \o call'.file_path.fileName \o Pad4(call'.frame)
                   \o <<".">> \o call'.file_path.fileExt) \notin fs')]_vars

C10_PurgeRemovesCollectionObjects ==
    [][(calls' # calls /\ call'.op = "purgeMeshObjectsFromCollection") =>
          LET was == bpy.coll[call'.collection_name]
          IN /\ was \cap bpy'.objAlive = {}
             /\ bpy'.coll[call'.collection_name] = {}
             /\ bpy'.objAlive = bpy.objAlive \ was
             /\ \A m \in bpy.meshes \ bpy'.meshes :
                   /\ call'.remove_meshes
                   /\ \E o \in was :
                         bpy.objType[o] = "MESH" /\ bpy.objData[o] = m
                   /\ \A o \in bpy'.objAlive : bpy'.objData[o] # m
             /\ \A m \in bpy.meshes :
                   (\E o \in bpy.objAlive \ was : bpy.objData[o] = m)
                       => m \in bpy'.meshes]_vars

\* A purge with remove_meshes removed the mesh of the collection's objects
\* and kept the mesh that an object outside the collection uses.
C10_Witness ==
    /\ call.op = "purgeMeshObjectsFromCollection"
    /\ call.collection_name = "Collection"
    /\ call.remove_meshes
    /\ bpy.coll["Collection"] = {}
    /\ bpy.meshes = {2}
    /\ \E o \in bpy.objAlive : bpy.objType[o] = "MESH" /\ bpy.objData[o] = 2

====
